---- MODULE Spec2Model ----
(***************************************************************************)
(* Model of the netsim on-chip network simulator (router.cpp, router.h,    *)
(* main.c): topology map, source routing on a ring, delay channels, the    *)
(* event queue, and the per-node tick (source, destination, router         *)
(* pipeline ST/SA/VA/RC/credit_update/fetch_credit/fetch_flit).            *)
(* A failed assert() of the program is recorded in `failed`; the program   *)
(* has aborted and no further event is dispatched.                         *)
(***************************************************************************)
EXTENDS Integers, Sequences, FiniteSets, TLC

VARIABLES
    curr_time,          \* EventQueue::curr_time()
    eventq,             \* pending tick events, ordered by (time, insertion)
    nodes,              \* node id -> Router object
    channels,           \* out-side port pair -> Channel (buf, buf_credit)
    double_tick_count,  \* Stat::double_tick_count
    failed,             \* "none", or the assertion that aborted the program
    delay,              \* Channel::delay (same for every channel)
    input_buf_size,     \* Router::input_buf_size
    topo,               \* a Topology under construction (TopoSpec)
    topo_res,           \* last topology_connect call: input, output, ok
    rc_in,              \* arguments of source_route_compute (RouteSpec)
    rc_out,             \* its result, <<>> before the call
    ring,               \* progress of a topology_ring(n) call (RingSpec)
    chan_res,           \* last Channel call and its result (ChanSpec)
    arb_res             \* last arbiter call and its result (ArbSpec)

vars == <<curr_time, eventq, nodes, channels, double_tick_count, failed,
          delay, input_buf_size, topo, topo_res, rc_in, rc_out, ring,
          chan_res, arb_res>>

netvars == <<curr_time, eventq, nodes, channels, double_tick_count, failed,
             delay, input_buf_size>>

----------------------------------------------------------------------------
(* Bounds of the model *)
MaxTime == 26       \* horizon of the driver loop (cycles)
MaxBufSize == 7     \* input_buf_size is drawn from 1..MaxBufSize
MaxDelay == 2       \* channel delay is drawn from 1..MaxDelay
MaxK == 6           \* ring sizes for source_route_compute
MaxRing == 10       \* ring sizes for topology_ring
MaxChanTime == 3    \* horizon of the channel specification (cycles)
MaxChanLen == 2     \* items per buffer in the channel specification
MaxChanPuts == 3    \* put and put_credit calls in the channel specification
MaxMisses == 2      \* counted repetitions of an empty get

(* Program constants *)
NumNodes == 4       \* main.c: topology_ring(4), sim_create(debug, 4, 4, 3, top)
RouterRadix == 3
TailCounter == 3    \* source_generate: counter value that emits the Tail
DstOffset == 2      \* source_generate: destination is (id + 2) % 4

----------------------------------------------------------------------------
(* Identity and topology *)

src_id(i) == [type |-> "src", value |-> i]
dst_id(i) == [type |-> "dst", value |-> i]
rtr_id(i) == [type |-> "rtr", value |-> i]
is_src(id) == id.type = "src"
is_dst(id) == id.type = "dst"

RouterPortPair(id, port) == [id |-> id, port |-> port]

not_connected ==
    [src |-> RouterPortPair(rtr_id(-1), -1),
     dst |-> RouterPortPair(rtr_id(-1), -1), uniq |-> -1]

topology_create == [forward_hash |-> <<>>, reverse_hash |-> <<>>]

\* stb_ds hash map operations, keyed by the port pair
hmgeti(m, key) == IF key \in DOMAIN m THEN 0 ELSE -1
hmlen(m) == Cardinality(DOMAIN m)
hmput(m, key, value) ==
    [x \in (DOMAIN m) \cup {key} |-> IF x = key THEN value ELSE m[x]]

\* The guard of topology_connect: either side already bound.
AlreadyConnected_InOnly(t, input, output) ==
    hmgeti(t.forward_hash, input) >= 0

AlreadyConnected(t, input, output) ==
    \/ hmgeti(t.forward_hash, input) >= 0
    \/ hmgeti(t.reverse_hash, output) >= 0

topology_connect(t, input, output) ==
    IF AlreadyConnected(t, input, output)
    THEN [ok |-> FALSE, t |-> t]
    ELSE LET conn == [src |-> input, dst |-> output,
                      uniq |-> hmlen(t.forward_hash)]
         IN [ok |-> TRUE,
             t |-> [forward_hash |-> hmput(t.forward_hash, input, conn),
                    reverse_hash |-> hmput(t.reverse_hash, output, conn)]]

\* One iteration of the loop of topology_connect_terminals (ids is 1-based)
connect_terminals_at(t, ids, i) ==
    LET src_port == RouterPortPair(src_id(ids[i]), 0)
        dst_port == RouterPortPair(dst_id(ids[i]), 0)
        rtr_port == RouterPortPair(rtr_id(ids[i]), 0)
        r1 == topology_connect(t, src_port, rtr_port)
        r2 == topology_connect(r1.t, rtr_port, dst_port)
    IN [ok |-> r1.ok /\ r2.ok, t |-> r2.t]

RECURSIVE connect_terminals_from(_, _, _)
connect_terminals_from(t, ids, i) ==
    IF i > Len(ids) THEN [ok |-> TRUE, t |-> t]
    ELSE LET r == connect_terminals_at(t, ids, i)
         IN IF ~r.ok THEN r
            ELSE connect_terminals_from(r.t, ids, i + 1)

topology_connect_terminals(t, ids) == connect_terminals_from(t, ids, 1)

\* Position in ids of the right-hand neighbour: ids[(i + 1) % arrlen(ids)]
\* of the 0-based loop, here 1-based.
RingNeighbour_SkipOne(i, len) == ((i + 1) % len) + 1

RingNeighbour(i, len) == (i % len) + 1

\* One iteration of the loop of topology_connect_ring (ids is 1-based)
connect_ring_at(t, ids, i) ==
    LET l == ids[i]
        r == ids[RingNeighbour(i, Len(ids))]
        lport == RouterPortPair(rtr_id(l), 2)
        rport == RouterPortPair(rtr_id(r), 1)
        r1 == topology_connect(t, lport, rport)
        r2 == topology_connect(r1.t, rport, lport)
    IN [ok |-> r1.ok /\ r2.ok, t |-> r2.t]

RECURSIVE connect_ring_from(_, _, _)
connect_ring_from(t, ids, i) ==
    IF i > Len(ids) THEN [ok |-> TRUE, t |-> t]
    ELSE LET r == connect_ring_at(t, ids, i)
         IN IF ~r.ok THEN r
            ELSE connect_ring_from(r.t, ids, i + 1)

topology_connect_ring(t, ids) == connect_ring_from(t, ids, 1)

RingIds(n) == [i \in 1..n |-> i - 1]

topology_ring(n) ==
    LET ids == RingIds(n)
        r1 == topology_connect_ring(topology_create, ids)
        r2 == topology_connect_terminals(r1.t, ids)
    IN [ok |-> r1.ok /\ r2.ok, t |-> r2.t]

conn_find_forward(t, out_port) ==
    IF hmgeti(t.forward_hash, out_port) = -1 THEN not_connected
    ELSE t.forward_hash[out_port]

conn_find_reverse(t, in_port) ==
    IF hmgeti(t.reverse_hash, in_port) = -1 THEN not_connected
    ELSE t.reverse_hash[in_port]

----------------------------------------------------------------------------
(* Source routing *)

Repeat(x, n) == [i \in 1..n |-> x]

\* The direction test of source_route_compute.
GoesClockwise_Strict(cw_dist, total) == cw_dist < total \div 2

GoesClockwise(cw_dist, total) == cw_dist <= total \div 2

source_route_compute(td_k, s, d) ==
    LET total == td_k
        cw_dist == (d - s + total) % total
    IN IF GoesClockwise(cw_dist, total)
       THEN Append(Repeat(2, cw_dist), 0)
       ELSE Append(Repeat(1, total - cw_dist), 0)

----------------------------------------------------------------------------
(* Flits, units, nodes *)

NoFlit == <<>>      \* an empty optional / NULL flit pointer

flit_create(t, s, d, p, ptr) ==
    [type |-> t,
     route_info |-> [src |-> s, dst |-> d, path |-> <<>>, idx |-> 0],
     payload |-> p,
     ptr |-> ptr]   \* identity of the allocated object

input_unit_create ==
    [global |-> "Idle", next_global |-> "Idle", route_port |-> -1,
     stage |-> "Idle", buf |-> <<>>, st_ready |-> NoFlit]

\* Initial credit count of an output unit, for a downstream buffer of bufsize.
InitialCredit_OneMore(bufsize) == bufsize + 1

InitialCredit(bufsize) == bufsize

output_unit_create(bufsize) ==
    [global |-> "Idle", next_global |-> "Idle", input_port |-> -1,
     credit_count |-> InitialCredit(bufsize), buf_credit |-> FALSE]

RouterCreate(id, radix, bufsize) ==
    LET terminal == is_src(id) \/ is_dst(id)
    IN [id |-> id, radix |-> radix,
        flit_arrive_count |-> 0, flit_gen_count |-> 0,
        last_tick |-> -1, last_reschedule_tick |-> -1,
        flit_payload_counter |-> 0, reschedule_next_tick |-> FALSE,
        input_units |->
            [p \in 0..(radix - 1) |->
                IF terminal THEN [input_unit_create EXCEPT !.route_port = 0]
                ELSE input_unit_create],
        output_units |->
            [p \in 0..(radix - 1) |->
                IF terminal
                THEN [output_unit_create(bufsize) EXCEPT !.input_port = 0]
                ELSE output_unit_create(bufsize)],
        va_last_grant_input |-> 0, sa_last_grant_input |-> 0]

----------------------------------------------------------------------------
(* The simulated network: a ring of NumNodes routers with terminals *)

Top == topology_ring(NumNodes).t

Indices == 0..(NumNodes - 1)
SrcIds == {src_id(i) : i \in Indices}
DstIds == {dst_id(i) : i \in Indices}
RtrIds == {rtr_id(i) : i \in Indices}
NodeIds == SrcIds \cup DstIds \cup RtrIds

RadixOf(id) == IF is_src(id) \/ is_dst(id) THEN 1 ELSE RouterRadix

ChannelKeys == DOMAIN Top.forward_hash

\* Router::output_channels[port] / Router::input_channels[port], named by
\* the out-side port pair of the channel's connection.
output_channel(id, port) == conn_find_forward(Top, RouterPortPair(id, port)).src
input_channel(id, port) == conn_find_reverse(Top, RouterPortPair(id, port)).src

ChannelCreate == [buf |-> <<>>, buf_credit |-> <<>>]

----------------------------------------------------------------------------
(* Event queue: events ordered by time, FIFO among equal times *)

Event(time, id) == [time |-> time, id |-> id]

RECURSIVE InsertByTime(_, _)
InsertByTime(q, ev) ==
    IF q = <<>> THEN <<ev>>
    ELSE IF Head(q).time <= ev.time THEN <<Head(q)>> \o InsertByTime(Tail(q), ev)
    ELSE <<ev>> \o q

schedule(q, now, delta, id) == InsertByTime(q, Event(now + delta, id))
reschedule(q, now, delta, id) == schedule(q, now, delta, id)

----------------------------------------------------------------------------
(* A tick works on a record s:
     n      the ticking node
     ch     all channels
     eq     the event queue
     now    eventq.curr_time()
     failed "none" or the assertion that fired *)

\* Sequencing: the value of v, once computed, is handed to the next step.
Then(v, Step(_)) == CHOOSE r \in {Step(x) : x \in {v}} : TRUE

Fail(s, what) == IF s.failed = "none" THEN [s EXCEPT !.failed = what] ELSE s

mark_reschedule(s) == [s EXCEPT !.n.reschedule_next_tick = TRUE]

\* Tick time scheduled for the receiver of an item put on a channel.
WakeDelay_Late(dl) == dl + 1

WakeDelay(dl) == dl

\* Channel::put on channel c
ChannelPut(s, c, flit) ==
    [s EXCEPT !.ch[c].buf = Append(@, <<s.now + delay, flit>>),
              !.eq = reschedule(@, s.now, WakeDelay(delay),
                                Top.forward_hash[c].dst.id)]

\* Channel::put_credit on channel c
ChannelPutCredit(s, c) ==
    [s EXCEPT !.ch[c].buf_credit = Append(@, s.now + delay),
              !.eq = reschedule(@, s.now, WakeDelay(delay),
                                Top.forward_hash[c].src.id)]

\* The test of Channel::get / get_credit on a buffer of items whose head has
\* release time t: "due" pops, "stagnant" is the failed assertion.
GetDue_Early(buf_times, now) == buf_times # <<>>

GetDue(buf_times, now) == buf_times # <<>> /\ now >= Head(buf_times)
GetStagnant(buf_times, now) == GetDue(buf_times, now) /\ now # Head(buf_times)

FlitTimes(buf) == [i \in 1..Len(buf) |-> buf[i][1]]

\* Channel::get on the flit buffer: whether an item is returned, the item,
\* the buffer left, and whether the "stagnant flit!" assertion fails.
ChannelGet(buf, now) ==
    LET due == GetDue(FlitTimes(buf), now)
    IN [got |-> due,
        item |-> IF due THEN Head(buf)[2] ELSE NoFlit,
        buf |-> IF due THEN Tail(buf) ELSE buf,
        stagnant |-> GetStagnant(FlitTimes(buf), now)]

\* Channel::get_credit on the credit buffer (a Credit has no fields)
ChannelGetCredit(buf_credit, now) ==
    LET due == GetDue(buf_credit, now)
    IN [got |-> due,
        buf |-> IF due THEN Tail(buf_credit) ELSE buf_credit,
        stagnant |-> GetStagnant(buf_credit, now)]

----------------------------------------------------------------------------
(* Source and destination *)

PayloadToType(counter) ==
    IF counter = 0 THEN "Head"
    ELSE IF counter = TailCounter THEN "Tail" ELSE "Body"

\* source_generate: the counter after a flit was made
NextPayloadCounter_NoReset(counter) == counter + 1

NextPayloadCounter(counter) ==
    IF counter = TailCounter THEN 0 ELSE counter + 1

\* source_generate: the early return on a credit stall
SourceStalled_Never(ou) == FALSE

SourceStalled(ou) == ou.credit_count <= 0

source_generate(s) ==
    LET ou == s.n.output_units[0]
        me == s.n.id.value
        cnt == s.n.flit_payload_counter
        f0 == flit_create(PayloadToType(cnt), me, (me + DstOffset) % 4, cnt,
                          <<me, s.n.flit_gen_count>>)
        flit == IF cnt = 0
                THEN [f0 EXCEPT !.route_info.path =
                        source_route_compute(NumNodes, f0.route_info.src,
                                             f0.route_info.dst)]
                ELSE f0
        s1 == [s EXCEPT !.n.flit_payload_counter = NextPayloadCounter(cnt)]
        s2 == ChannelPut(s1, output_channel(s.n.id, 0), flit)
        s3 == [s2 EXCEPT !.n.output_units[0].credit_count = @ - 1]
    IN IF s.failed # "none" \/ SourceStalled(ou) THEN s
       ELSE IF s3.n.output_units[0].credit_count < 0
            THEN Fail(s3, "source_credit_negative")
            ELSE mark_reschedule([s3 EXCEPT !.n.flit_gen_count = @ + 1])

\* destination_consume: the input buffer after queue_pop
ConsumePop_Keep(buf) == buf

ConsumePop(buf) == Tail(buf)

destination_consume(s) ==
    LET iu == s.n.input_units[0]
        s1 == [s EXCEPT !.n.flit_arrive_count = @ + 1,
                        !.n.input_units[0].buf = ConsumePop(@)]
    IN IF s.failed # "none" \/ iu.buf = <<>> THEN s
       ELSE IF s1.n.input_units[0].buf # <<>>
            THEN Fail(s1, "destination_buf_not_drained")
            ELSE mark_reschedule(ChannelPutCredit(s1, input_channel(s.n.id, 0)))

----------------------------------------------------------------------------
(* fetch_flit, fetch_credit, credit_update *)

\* fetch_flit: the state it tests before the Idle -> RC transition
KickstartState_Committed(iu) == iu.global

KickstartState(iu) == iu.next_global

fetch_flit_port(s, iport) ==
    LET c == input_channel(s.n.id, iport)
        g == ChannelGet(s.ch[c].buf, s.now)
        iu == s.n.input_units[iport]
        flit == g.item
        was_empty == iu.buf = <<>>
        iu1 == IF was_empty /\ KickstartState(iu) = "Idle"
               THEN [iu EXCEPT !.next_global = "Routing", !.stage = "RC"]
               ELSE iu
        iu2 == [iu1 EXCEPT !.buf = Append(@, flit)]
        s1 == [s EXCEPT !.ch[c].buf = g.buf, !.n.input_units[iport] = iu2]
        s2 == IF was_empty THEN mark_reschedule(s1) ELSE s1
    IN IF s.failed # "none" \/ ~g.got THEN s
       ELSE IF g.stagnant THEN Fail(s, "stagnant_flit")
       ELSE IF Len(iu2.buf) > input_buf_size
            THEN Fail(s2, "input_buffer_overflow")
            ELSE s2

RECURSIVE fetch_flit_from(_, _)
fetch_flit_from(s, iport) ==
    IF iport >= s.n.radix THEN s
    ELSE Then(fetch_flit_port(s, iport), LAMBDA x : fetch_flit_from(x, iport + 1))

fetch_flit(s) == fetch_flit_from(s, 0)

fetch_credit_port(s, oport) ==
    LET c == output_channel(s.n.id, oport)
        g == ChannelGetCredit(s.ch[c].buf_credit, s.now)
        s1 == [s EXCEPT !.ch[c].buf_credit = g.buf,
                        !.n.output_units[oport].buf_credit = TRUE]
    IN IF s.failed # "none" \/ ~g.got THEN s
       ELSE IF g.stagnant THEN Fail(s, "stagnant_credit")
       ELSE mark_reschedule(s1)

RECURSIVE fetch_credit_from(_, _)
fetch_credit_from(s, oport) ==
    IF oport >= s.n.radix THEN s
    ELSE Then(fetch_credit_port(s, oport), LAMBDA x : fetch_credit_from(x, oport + 1))

fetch_credit(s) == fetch_credit_from(s, 0)

\* credit_update: the credit count after a parked credit was applied
CreditIncrement_Twice(count) == count + 2

CreditIncrement(count) == count + 1

\* credit_update: whether the credit takes the units out of CreditWait
CreditWake_Committed(ou) == ou.credit_count = 0 /\ ou.global = "CreditWait"

CreditWake(ou) == ou.credit_count = 0 /\ ou.next_global = "CreditWait"

credit_update_port(s, oport) ==
    LET ou == s.n.output_units[oport]
        ip == ou.input_port
        iu == s.n.input_units[ip]
        wake == CreditWake(ou)
        s1 == IF wake
              THEN [s EXCEPT !.n.input_units[ip].next_global = "Active",
                             !.n.output_units[oport].next_global = "Active"]
              ELSE s
        s2 == IF ou.credit_count = 0 THEN mark_reschedule(s1) ELSE s1
        s3 == [s2 EXCEPT !.n.output_units[oport].credit_count = CreditIncrement(@),
                         !.n.output_units[oport].buf_credit = FALSE]
    IN IF s.failed # "none" \/ ~ou.buf_credit THEN s
       ELSE IF ip = -1 THEN Fail(s, "credit_update_no_input_port")
       ELSE IF wake /\ iu.next_global # "CreditWait"
            THEN Fail(s, "credit_update_input_not_creditwait")
            ELSE s3

RECURSIVE credit_update_from(_, _)
credit_update_from(s, oport) ==
    IF oport >= s.n.radix THEN s
    ELSE Then(credit_update_port(s, oport), LAMBDA x : credit_update_from(x, oport + 1))

credit_update(s) == credit_update_from(s, 0)

----------------------------------------------------------------------------
(* Router pipeline stages *)

\* route_compute: the path index after the read
RCNextIdx_Stuck(idx) == idx

RCNextIdx(idx) == idx + 1

route_compute_port(s, port) ==
    LET iu == s.n.input_units[port]
        flit == Head(iu.buf)
        ri == flit.route_info
        iu1 == [iu EXCEPT !.route_port = ri.path[ri.idx + 1],
                          !.buf[1].route_info.idx = RCNextIdx(@),
                          !.next_global = "VCWait",
                          !.stage = "VA"]
    IN IF s.failed # "none" \/ iu.global # "Routing" THEN s
       ELSE IF iu.buf = <<>> THEN Fail(s, "rc_buf_empty")
       ELSE IF ~(ri.idx < Len(ri.path)) THEN Fail(s, "rc_idx_out_of_bounds")
       ELSE mark_reschedule([s EXCEPT !.n.input_units[port] = iu1])

RECURSIVE route_compute_from(_, _)
route_compute_from(s, port) ==
    IF port >= s.n.radix THEN s
    ELSE Then(route_compute_port(s, port), LAMBDA x : route_compute_from(x, port + 1))

route_compute(s) == route_compute_from(s, 0)

\* Round-robin search: the first port, in cyclic order from (last + 1) % radix,
\* that is in the set req; -1 if there is none.
RoundRobin_FromLast(last, radix, req) ==
    LET offs == {i \in 0..(radix - 1) : ((last + i) % radix) \in req}
    IN IF offs = {} THEN -1
       ELSE (last + (CHOOSE i \in offs : \A j \in offs : i <= j)) % radix

RoundRobin(last, radix, req) ==
    LET start == (last + 1) % radix
        offs == {i \in 0..(radix - 1) : ((start + i) % radix) \in req}
    IN IF offs = {} THEN -1
       ELSE (start + (CHOOSE i \in offs : \A j \in offs : i <= j)) % radix

\* The arbiters store the granted port in their last-grant pointer and leave
\* it alone when they return -1.
GrantPointer(last, iport) == IF iport = -1 THEN last ELSE iport

VARequests(n, out_port) ==
    {i \in 0..(n.radix - 1) :
        n.input_units[i].global = "VCWait" /\ n.input_units[i].route_port = out_port}

vc_arbit_round_robin(n, out_port) ==
    RoundRobin(n.va_last_grant_input, n.radix, VARequests(n, out_port))

SARequests(n, out_port) ==
    {i \in 0..(n.radix - 1) :
        /\ n.input_units[i].stage = "SA"
        /\ n.input_units[i].route_port = out_port
        /\ n.input_units[i].global = "Active"}

sa_arbit_round_robin(n, out_port) ==
    RoundRobin(n.sa_last_grant_input, n.radix, SARequests(n, out_port))

\* vc_alloc arbitrates only for output units that satisfy this test.
VAOutputFree_Always(ou) == TRUE

VAOutputFree(ou) == ou.global = "Idle"

\* vc_alloc: state given to both units on a grant
VAGrantState_Active(ou) == "Active"

VAGrantState(ou) == IF ou.credit_count = 0 THEN "CreditWait" ELSE "Active"

\* vc_alloc: the input port recorded in the output unit on a grant
VARecordInput_Keep(old, iport) == old

VARecordInput(old, iport) == iport

vc_alloc_port(s, oport) ==
    LET ou == s.n.output_units[oport]
        iport == vc_arbit_round_robin(s.n, oport)
        iu == s.n.input_units[iport]
        st == VAGrantState(ou)
        s1 == [s EXCEPT !.n.va_last_grant_input = GrantPointer(@, iport),
                        !.n.input_units[iport].next_global = st,
                        !.n.input_units[iport].stage = "SA",
                        !.n.output_units[oport].next_global = st,
                        !.n.output_units[oport].input_port =
                            VARecordInput(@, iport)]
    IN IF s.failed # "none" \/ ~VAOutputFree(ou) \/ iport = -1 THEN s
       ELSE IF iu.stage # "VA" THEN Fail(s, "va_stage_not_va")
       ELSE mark_reschedule(s1)

RECURSIVE vc_alloc_from(_, _)
vc_alloc_from(s, oport) ==
    IF oport >= s.n.radix THEN s
    ELSE Then(vc_alloc_port(s, oport), LAMBDA x : vc_alloc_from(x, oport + 1))

vc_alloc(s) == vc_alloc_from(s, 0)

\* switch_alloc: what the granted flit leaves behind in the input buffer
SAPop_Keep(buf) == buf

SAPop(buf) == Tail(buf)

switch_alloc_port(s, oport) ==
    LET ou == s.n.output_units[oport]
        iport == sa_arbit_round_robin(s.n, oport)
        iu == s.n.input_units[iport]
        flit == Head(iu.buf)
        rest == SAPop(iu.buf)
        credit == ou.credit_count - 1
        \* the grant: pop into st_ready, decrement the credit
        g == [s EXCEPT !.n.sa_last_grant_input = GrantPointer(@, iport),
                       !.n.input_units[iport].buf = rest,
                       !.n.input_units[iport].st_ready = flit,
                       !.n.output_units[oport].credit_count = credit]
        \* SA -> ?? transition
        t == IF flit.type = "Tail"
             THEN mark_reschedule(
                    [g EXCEPT !.n.output_units[oport].next_global = "Idle",
                              !.n.input_units[iport].next_global =
                                  IF rest = <<>> THEN "Idle" ELSE "Routing",
                              !.n.input_units[iport].stage =
                                  IF rest = <<>> THEN "Idle" ELSE "RC"])
             ELSE IF credit = 0
             THEN [g EXCEPT !.n.input_units[iport].next_global = "CreditWait",
                            !.n.output_units[oport].next_global = "CreditWait"]
             ELSE mark_reschedule(
                    [g EXCEPT !.n.input_units[iport].next_global = "Active",
                              !.n.input_units[iport].stage = "SA"])
    IN IF s.failed # "none" \/ ou.global # "Active" \/ iport = -1 THEN s
       ELSE IF iu.buf = <<>>
            THEN Fail([s EXCEPT !.n.sa_last_grant_input = iport], "sa_buf_empty")
       ELSE IF iu.st_ready # NoFlit
            THEN Fail([s EXCEPT !.n.sa_last_grant_input = iport,
                                !.n.input_units[iport].buf = rest],
                      "sa_st_ready_occupied")
       ELSE IF ~(ou.credit_count > 0)
            THEN Fail([g EXCEPT !.n.output_units[oport].credit_count =
                                    ou.credit_count],
                      "sa_credit_not_positive")
       ELSE t

RECURSIVE switch_alloc_from(_, _)
switch_alloc_from(s, oport) ==
    IF oport >= s.n.radix THEN s
    ELSE Then(switch_alloc_port(s, oport), LAMBDA x : switch_alloc_from(x, oport + 1))

switch_alloc(s) == switch_alloc_from(s, 0)

\* switch_traverse: the st_ready slot after the flit has left
STClear_Keep(flit) == flit

STClear(flit) == NoFlit

switch_traverse_port(s, iport) ==
    LET iu == s.n.input_units[iport]
        flit == iu.st_ready
        s1 == [s EXCEPT !.n.input_units[iport].st_ready = STClear(flit)]
        s2 == ChannelPut(s1, output_channel(s.n.id, iu.route_port), flit)
        s3 == ChannelPutCredit(s2, input_channel(s.n.id, iport))
    IN IF s.failed # "none" \/ iu.st_ready = NoFlit THEN s ELSE s3

RECURSIVE switch_traverse_from(_, _)
switch_traverse_from(s, iport) ==
    IF iport >= s.n.radix THEN s
    ELSE Then(switch_traverse_port(s, iport), LAMBDA x : switch_traverse_from(x, iport + 1))

switch_traverse(s) == switch_traverse_from(s, 0)

\* update_states: the committed state of an input unit
CommitInput_Skip(iu) == iu.global

CommitInput(iu) == iu.next_global

\* update_states: whether the commit asks for a tick in the next cycle
CommitReschedules_Never(iu_changed, ou_changed) == FALSE

CommitReschedules(iu_changed, ou_changed) == iu_changed \/ ou_changed

update_states(s) ==
    LET ports == 0..(s.n.radix - 1)
        iu_changed == \E p \in ports :
            s.n.input_units[p].global # s.n.input_units[p].next_global
        ou_changed == \E p \in ports :
            s.n.output_units[p].global # s.n.output_units[p].next_global
        bad == \E p \in ports :
            LET ou == s.n.output_units[p]
            IN ou.global # ou.next_global /\ ou.next_global = "CreditWait"
               /\ ou.credit_count > 0
        s1 == [s EXCEPT
                 !.n.input_units = [p \in ports |->
                     [s.n.input_units[p] EXCEPT
                         !.global = CommitInput(s.n.input_units[p])]],
                 !.n.output_units = [p \in ports |->
                     [s.n.output_units[p] EXCEPT
                         !.global = s.n.output_units[p].next_global]]]
    IN IF s.failed # "none" THEN s
       ELSE IF bad THEN Fail(s, "update_states_creditwait_with_credit")
       ELSE IF CommitReschedules(iu_changed, ou_changed)
            THEN mark_reschedule(s1) ELSE s1

do_reschedule(s) ==
    IF s.failed = "none" /\ s.n.reschedule_next_tick
       /\ s.now # s.n.last_reschedule_tick
    THEN [s EXCEPT !.eq = reschedule(@, s.now, 1, s.n.id),
                   !.n.last_reschedule_tick = s.now]
    ELSE s

----------------------------------------------------------------------------
(* Router::tick *)

SourceStages_UpdateFirst(s) ==
    Then(credit_update(s), LAMBDA a :
    Then(source_generate(a), LAMBDA b : fetch_credit(b)))

SourceStages(s) ==
    Then(source_generate(s), LAMBDA a :
    Then(credit_update(a), LAMBDA b : fetch_credit(b)))

DestinationStages_FetchFirst(s) ==
    Then(fetch_flit(s), LAMBDA a : destination_consume(a))

DestinationStages(s) ==
    Then(destination_consume(s), LAMBDA a : fetch_flit(a))

RouterStages_AllocFirst(s) ==
    Then(switch_alloc(s), LAMBDA a :
    Then(switch_traverse(a), LAMBDA b :
    Then(vc_alloc(b), LAMBDA c :
    Then(route_compute(c), LAMBDA d :
    Then(credit_update(d), LAMBDA e :
    Then(fetch_credit(e), LAMBDA f : fetch_flit(f)))))))

RouterStages(s) ==
    Then(switch_traverse(s), LAMBDA a :
    Then(switch_alloc(a), LAMBDA b :
    Then(vc_alloc(b), LAMBDA c :
    Then(route_compute(c), LAMBDA d :
    Then(credit_update(d), LAMBDA e :
    Then(fetch_credit(e), LAMBDA f : fetch_flit(f)))))))

NodeStages(s) ==
    IF is_src(s.n.id) THEN SourceStages(s)
    ELSE IF is_dst(s.n.id) THEN DestinationStages(s)
    ELSE RouterStages(s)

SetLastTick(s) ==
    IF s.failed # "none" THEN s ELSE [s EXCEPT !.n.last_tick = s.now]

tick(s) ==
    Then([s EXCEPT !.n.reschedule_next_tick = FALSE], LAMBDA a :
    Then(NodeStages(a), LAMBDA b :
    Then(update_states(b), LAMBDA c :
    Then(do_reschedule(c), LAMBDA d : SetLastTick(d)))))

----------------------------------------------------------------------------
(* The network specification: the driver pops the earliest event and
   dispatches it to its node. *)

Max(a, b) == IF a >= b THEN a ELSE b

RECURSIVE SeedEvents(_, _)
SeedEvents(seeds, i) ==
    IF i >= NumNodes THEN <<>>
    ELSE (IF i \in seeds THEN <<Event(0, src_id(i))>> ELSE <<>>)
         \o SeedEvents(seeds, i + 1)

NoConnectCall ==
    [input |-> not_connected.src, output |-> not_connected.dst,
     ok |-> FALSE, before |-> topology_create]

\* misses / credit_misses: calls of get / get_credit that returned nothing
\* since the last put, put_credit or returned item
NoChanCall ==
    [op |-> "none", now |-> 0, before |-> ChannelCreate, got |-> FALSE,
     item |-> NoFlit, misses |-> 0, credit_misses |-> 0]

ChanIdle == chan_res = NoChanCall

NoArbCall ==
    [op |-> "none", out_port |-> -1, last |-> [va |-> 0, sa |-> 0],
     result |-> -1]

ArbIdle == arb_res = NoArbCall

RingIdle == ring = [n |-> 0, i |-> 1, phase |-> "idle", res |-> TRUE]

TopoIdle ==
    /\ topo = topology_create
    /\ topo_res = NoConnectCall
    /\ RingIdle
    /\ ChanIdle
    /\ ArbIdle

RouteIdle ==
    /\ rc_in = [k |-> NumNodes, src |-> 0, dst |-> 0]
    /\ rc_out = <<>>

NetInit(seeds, bufsize, dl) ==
    /\ curr_time = 0
    /\ eventq = SeedEvents(seeds, 0)
    /\ nodes = [id \in NodeIds |-> RouterCreate(id, RadixOf(id), bufsize)]
    /\ channels = [c \in ChannelKeys |-> ChannelCreate]
    /\ double_tick_count = 0
    /\ failed = "none"
    /\ delay = dl
    /\ input_buf_size = bufsize

Init ==
    /\ \E seeds \in (SUBSET Indices) \ {{}}, bufsize \in 1..MaxBufSize,
          dl \in 1..MaxDelay : NetInit(seeds, bufsize, dl)
    /\ TopoIdle
    /\ RouteIdle

CanDispatch ==
    /\ failed = "none"
    /\ eventq # <<>>
    /\ Head(eventq).time <= MaxTime

\* Whether tick() returns at once because the node was ticked in this cycle.
IsDoubleTick_Never(n, now) == FALSE

IsDoubleTick(n, now) == now = n.last_tick

\* The driver pops the event and the node's tick() runs its stages.
Dispatch(id) ==
    /\ CanDispatch
    /\ Head(eventq).id = id
    /\ ~IsDoubleTick(nodes[id], Head(eventq).time)
    /\ \E s \in {[n |-> nodes[id], ch |-> channels, eq |-> Tail(eventq),
                   now |-> Head(eventq).time, failed |-> "none"]} :
       \E r \in {tick(s)} :
          /\ curr_time' = s.now
          /\ failed' = r.failed
          /\ IF r.failed = "none"
             THEN /\ nodes' = [nodes EXCEPT ![id] = r.n]
                  /\ channels' = r.ch
                  /\ eventq' = r.eq
             ELSE UNCHANGED <<nodes, channels, eventq>>
    /\ UNCHANGED <<double_tick_count, delay, input_buf_size,
                   topo, topo_res, rc_in, rc_out, ring, chan_res,
                   arb_res>>

SourceTick == \E id \in SrcIds : Dispatch(id)

DestinationTick == \E id \in DstIds : Dispatch(id)

RouterTick == \E id \in RtrIds : Dispatch(id)

DoubleTick ==
    /\ CanDispatch
    /\ IsDoubleTick(nodes[Head(eventq).id], Head(eventq).time)
    /\ curr_time' = Head(eventq).time
    /\ eventq' = Tail(eventq)
    /\ double_tick_count' = double_tick_count + 1
    /\ UNCHANGED <<nodes, channels, failed, delay, input_buf_size,
                   topo, topo_res, rc_in, rc_out, ring, chan_res,
                   arb_res>>

Next == SourceTick \/ DestinationTick \/ RouterTick \/ DoubleTick

Spec == Init /\ [][Next]_vars

----------------------------------------------------------------------------
(* Specification of source_route_compute alone *)

RouteInit ==
    /\ NetInit({}, 1, 1)
    /\ TopoIdle
    /\ \E k \in 1..MaxK : \E s \in 0..(k - 1), d \in 0..(k - 1) :
          rc_in = [k |-> k, src |-> s, dst |-> d]
    /\ rc_out = <<>>

RouteCompute ==
    /\ rc_out = <<>>
    /\ rc_out' = source_route_compute(rc_in.k, rc_in.src, rc_in.dst)
    /\ UNCHANGED <<netvars, topo, topo_res, rc_in, ring, chan_res, arb_res>>

RouteNext == RouteCompute

RouteSpec == RouteInit /\ [][RouteNext]_vars

----------------------------------------------------------------------------
(* Specification of topology_connect alone: any sequence of connect calls
   over a small set of port pairs *)

TopoPorts == {RouterPortPair(rtr_id(i), p) : i \in {0, 1}, p \in {1, 2}}

TopoInit ==
    /\ NetInit({}, 1, 1)
    /\ RouteIdle
    /\ TopoIdle

Connect(input, output) ==
    LET r == topology_connect(topo, input, output)
    IN /\ topo' = r.t
       /\ topo_res' = [input |-> input, output |-> output, ok |-> r.ok,
                       before |-> topo]
       /\ UNCHANGED <<netvars, rc_in, rc_out, ring, chan_res, arb_res>>

TopoNext == \E input \in TopoPorts, output \in TopoPorts : Connect(input, output)

TopoSpec == TopoInit /\ [][TopoNext]_vars

----------------------------------------------------------------------------
(* Specification of topology_ring(n) alone: one step per loop iteration of
   topology_connect_ring, then of topology_connect_terminals.  ring.res is
   the variable res of topology_ring, checked by its assert at the end. *)

RingInit ==
    /\ NetInit({}, 1, 1)
    /\ RouteIdle
    /\ topo = topology_create
    /\ topo_res = NoConnectCall
    /\ ChanIdle
    /\ ArbIdle
    /\ \E n \in 1..MaxRing :
          ring = [n |-> n, i |-> 1, phase |-> "ring", res |-> TRUE]

\* The loops return false at the first failing iteration, true at the end.
RingLoopStep(phase, r, next_phase) ==
    /\ ring.phase = phase
    /\ topo' = r.t
    /\ ring' = IF r.ok /\ ring.i < ring.n
               THEN [ring EXCEPT !.i = @ + 1]
               ELSE [ring EXCEPT !.i = 1, !.phase = next_phase,
                                 !.res = @ /\ r.ok]
    /\ UNCHANGED <<netvars, topo_res, rc_in, rc_out, chan_res, arb_res>>

ConnectRingStep ==
    RingLoopStep("ring", connect_ring_at(topo, RingIds(ring.n), ring.i),
                 "terminals")

ConnectTerminalsStep ==
    RingLoopStep("terminals",
                 connect_terminals_at(topo, RingIds(ring.n), ring.i), "done")

RingNext == ConnectRingStep \/ ConnectTerminalsStep

RingSpec == RingInit /\ [][RingNext]_vars

----------------------------------------------------------------------------
(* Specification of one Channel alone (the channel from source 0 to router
   0): put, put_credit, get and get_credit called in any order while time
   advances. *)

Chan0 == output_channel(src_id(0), 0)

ChanInit ==
    /\ \E dl \in 1..MaxDelay : NetInit({}, 1, dl)
    /\ RouteIdle
    /\ TopoIdle

\* The calling context of a Channel method: only ch, eq and now are used.
ChanCaller(id) ==
    [n |-> nodes[id], ch |-> channels, eq |-> eventq, now |-> curr_time,
     failed |-> "none"]

ChanCalled(op, r) ==
    /\ channels' = r.ch
    /\ eventq' = r.eq
    /\ chan_res' = [NoChanCall EXCEPT !.op = op, !.now = curr_time,
                                     !.before = channels[Chan0]]
    /\ UNCHANGED <<curr_time, nodes, double_tick_count, failed, delay,
                   input_buf_size, topo, topo_res, rc_in, rc_out, ring,
                   arb_res>>

\* Every put or put_credit has scheduled one event.
ChanPuts == Len(eventq)

ChanPut ==
    /\ failed = "none"
    /\ ChanPuts < MaxChanPuts
    /\ Len(channels[Chan0].buf) < MaxChanLen
    /\ ChanCalled("put",
                  ChannelPut(ChanCaller(src_id(0)), Chan0,
                             flit_create("Body", 0, DstOffset, 1,
                                         <<0, ChanPuts>>)))

ChanPutCredit ==
    /\ failed = "none"
    /\ ChanPuts < MaxChanPuts
    /\ Len(channels[Chan0].buf_credit) < MaxChanLen
    /\ ChanCalled("put_credit", ChannelPutCredit(ChanCaller(rtr_id(0)), Chan0))

Miss(got, count) ==
    IF got THEN count ELSE IF count < MaxMisses THEN count + 1 ELSE count

ChanGet ==
    /\ failed = "none"
    /\ \E r \in {ChannelGet(channels[Chan0].buf, curr_time)} :
          /\ failed' = IF r.stagnant THEN "stagnant_flit" ELSE failed
          /\ channels' = IF r.stagnant THEN channels
                         ELSE [channels EXCEPT ![Chan0].buf = r.buf]
          /\ chan_res' =
                [op |-> "get", now |-> curr_time, before |-> channels[Chan0],
                 got |-> r.got, item |-> r.item,
                 misses |-> Miss(r.got, IF chan_res.op = "get" /\ chan_res.got
                                       THEN 0 ELSE chan_res.misses),
                 credit_misses |-> chan_res.credit_misses]
    /\ UNCHANGED <<curr_time, eventq, nodes, double_tick_count, delay,
                   input_buf_size, topo, topo_res, rc_in, rc_out, ring,
                   arb_res>>

ChanGetCredit ==
    /\ failed = "none"
    /\ \E r \in {ChannelGetCredit(channels[Chan0].buf_credit, curr_time)} :
          /\ failed' = IF r.stagnant THEN "stagnant_credit" ELSE failed
          /\ channels' = IF r.stagnant THEN channels
                         ELSE [channels EXCEPT ![Chan0].buf_credit = r.buf]
          /\ chan_res' =
                [op |-> "get_credit", now |-> curr_time,
                 before |-> channels[Chan0], got |-> r.got, item |-> NoFlit,
                 misses |-> chan_res.misses,
                 credit_misses |->
                    Miss(r.got, IF chan_res.op = "get_credit" /\ chan_res.got
                                THEN 0 ELSE chan_res.credit_misses)]
    /\ UNCHANGED <<curr_time, eventq, nodes, double_tick_count, delay,
                   input_buf_size, topo, topo_res, rc_in, rc_out, ring,
                   arb_res>>

\* The event queue moves on to the next cycle.
ChanAdvance ==
    /\ failed = "none"
    /\ curr_time < MaxChanTime
    /\ curr_time' = curr_time + 1
    /\ chan_res' = [chan_res EXCEPT !.op = "none", !.got = FALSE,
                                    !.item = NoFlit]
    /\ UNCHANGED <<eventq, nodes, channels, double_tick_count, failed, delay,
                   input_buf_size, topo, topo_res, rc_in, rc_out, ring,
                   arb_res>>

ChanNext == ChanPut \/ ChanPutCredit \/ ChanGet \/ ChanGetCredit \/ ChanAdvance

ChanSpec == ChanInit /\ [][ChanNext]_vars

----------------------------------------------------------------------------
(* Specification of the two arbiters alone: one call of vc_arbit_round_robin
   or sa_arbit_round_robin on router 0, whose input units and last-grant
   pointers are drawn from the states an input unit can be in (a superset of
   the reachable router states). *)

ArbRouter == rtr_id(0)

ArbPorts == 0..(RouterRadix - 1)

ArbUnitStates ==
    {input_unit_create}
    \cup {[input_unit_create EXCEPT !.global = g[1], !.next_global = g[1],
                                    !.stage = g[2], !.route_port = p] :
            g \in {<<"Routing", "RC">>, <<"VCWait", "VA">>,
                   <<"Active", "SA">>, <<"CreditWait", "SA">>},
            p \in ArbPorts}

ArbInit ==
    /\ curr_time = 0
    /\ eventq = <<>>
    /\ \E ius \in [ArbPorts -> ArbUnitStates], va \in ArbPorts, sa \in ArbPorts :
          nodes = [id \in NodeIds |->
                     IF id = ArbRouter
                     THEN [RouterCreate(id, RadixOf(id), 1) EXCEPT
                             !.input_units = ius,
                             !.va_last_grant_input = va,
                             !.sa_last_grant_input = sa]
                     ELSE RouterCreate(id, RadixOf(id), 1)]
    /\ channels = [c \in ChannelKeys |-> ChannelCreate]
    /\ double_tick_count = 0
    /\ failed = "none"
    /\ delay = 1
    /\ input_buf_size = 1
    /\ RouteIdle
    /\ TopoIdle

ArbCalled(op, out_port, r, n2) ==
    /\ arb_res' = [op |-> op, out_port |-> out_port,
                   last |-> [va |-> nodes[ArbRouter].va_last_grant_input,
                             sa |-> nodes[ArbRouter].sa_last_grant_input],
                   result |-> r]
    /\ nodes' = [nodes EXCEPT ![ArbRouter] = n2]
    /\ UNCHANGED <<curr_time, eventq, channels, double_tick_count, delay,
                   input_buf_size, topo, topo_res, rc_in, rc_out, ring,
                   chan_res>>

VcArbit(out_port) ==
    /\ ArbIdle
    /\ \E r \in {vc_arbit_round_robin(nodes[ArbRouter], out_port)} :
          LET n == nodes[ArbRouter]
              bad == r # -1 /\ n.input_units[r].stage # "VA"
          IN /\ failed' = IF bad THEN "va_stage_not_va" ELSE failed
             /\ ArbCalled("vc_arbit", out_port, r,
                          IF bad THEN n
                          ELSE [n EXCEPT !.va_last_grant_input =
                                            GrantPointer(@, r)])

SaArbit(out_port) ==
    /\ ArbIdle
    /\ \E r \in {sa_arbit_round_robin(nodes[ArbRouter], out_port)} :
          /\ failed' = failed
          /\ ArbCalled("sa_arbit", out_port, r,
                       [nodes[ArbRouter] EXCEPT !.sa_last_grant_input =
                                                   GrantPointer(@, r)])

ArbNext == \E out_port \in ArbPorts : VcArbit(out_port) \/ SaArbit(out_port)

ArbSpec == ArbInit /\ [][ArbNext]_vars

----------------------------------------------------------------------------
(* Vocabulary of the properties *)

Ports(id) == 0..(RadixOf(id) - 1)

\* The two ends of channel c.
Up(c) == c
Down(c) == Top.forward_hash[c].dst

EndOfCycle == eventq = <<>> \/ Head(eventq).time > curr_time

Bit(b) == IF b THEN 1 ELSE 0

UpOutput(c) == nodes[Up(c).id].output_units[Up(c).port]
DownInput(c) == nodes[Down(c).id].input_units[Down(c).port]

\* st_ready slots of the upstream node that hold a flit granted to c's port
UpStaged(c) ==
    {i \in Ports(Up(c).id) :
        /\ nodes[Up(c).id].input_units[i].st_ready # NoFlit
        /\ nodes[Up(c).id].input_units[i].route_port = Up(c).port}

FourTermSum(c) ==
    UpOutput(c).credit_count + Len(channels[c].buf) + Len(DownInput(c).buf)
        + Len(channels[c].buf_credit)

StagedTerms(c) ==
    Cardinality(UpStaged(c)) + Bit(DownInput(c).st_ready # NoFlit)
        + Bit(UpOutput(c).buf_credit)

\* C1 (as stated): at the end of every cycle, on every channel, credit_count
\* + flits in flight + flits in the downstream buffer + credits in flight
\* equals input_buf_size.
C1_FourTermConservation ==
    EndOfCycle => \A c \in ChannelKeys : FourTermSum(c) = input_buf_size

\* C1 (amended): the sum is conserved once the flits staged in st_ready (of
\* the upstream node, granted to this channel, and of the downstream input
\* unit, popped but its credit not yet returned) and the credit parked in the
\* upstream buf_credit are counted too.
C1_CreditConservation ==
    \A c \in ChannelKeys : FourTermSum(c) + StagedTerms(c) = input_buf_size

C1_Witness ==
    /\ EndOfCycle
    /\ \E c \in ChannelKeys :
          /\ DownInput(c).st_ready # NoFlit
          /\ Len(channels[c].buf_credit) > 0
          /\ UpOutput(c).credit_count < input_buf_size
    /\ \E c \in ChannelKeys : UpOutput(c).buf_credit

\* C2: every input buffer holds at most input_buf_size flits and the overflow
\* assertion of fetch_flit does not fire.
C2_BufferBound ==
    /\ failed # "input_buffer_overflow"
    /\ \A id \in NodeIds : \A p \in Ports(id) :
          Len(nodes[id].input_units[p].buf) <= input_buf_size

C2_Witness ==
    /\ input_buf_size >= 2
    /\ \E id \in RtrIds : \E p \in Ports(id) :
          Len(nodes[id].input_units[p].buf) = input_buf_size

\* C3: every output unit has credit_count >= 0 and neither credit assertion
\* (source_generate, switch_alloc) fires.
C3_NonNegativeCredits ==
    /\ failed \notin {"source_credit_negative", "sa_credit_not_positive"}
    /\ \A id \in NodeIds : \A p \in Ports(id) :
          nodes[id].output_units[p].credit_count >= 0

C3_Witness ==
    /\ \E id \in SrcIds :
          /\ nodes[id].output_units[0].credit_count = 0
          /\ nodes[id].flit_gen_count >= input_buf_size
          /\ nodes[id].last_tick > input_buf_size
    /\ \E id \in RtrIds : \E p \in Ports(id) :
          /\ nodes[id].output_units[p].credit_count = 0
          /\ nodes[id].output_units[p].global = "CreditWait"

----------------------------------------------------------------------------
\* Every place that holds a flit, with the identity of the flit it holds.
UnitPorts == {RouterPortPair(id, p) : id \in NodeIds, p \in 0..(RouterRadix - 1)}
                \cap {pp \in [id : NodeIds, port : 0..(RouterRadix - 1)] :
                        pp.port \in Ports(pp.id)}

InputUnitAt(pp) == nodes[pp.id].input_units[pp.port]

ChannelLocations ==
    UNION {{<<"channel", c, i, channels[c].buf[i][2].ptr>> :
                i \in 1..Len(channels[c].buf)} : c \in ChannelKeys}

BufferLocations ==
    UNION {{<<"buf", pp, i, InputUnitAt(pp).buf[i].ptr>> :
                i \in 1..Len(InputUnitAt(pp).buf)} : pp \in UnitPorts}

StagedLocations ==
    {<<"st_ready", pp, 1, InputUnitAt(pp).st_ready.ptr>> :
        pp \in {q \in UnitPorts : InputUnitAt(q).st_ready # NoFlit}}

FlitLocations == ChannelLocations \cup BufferLocations \cup StagedLocations

RECURSIVE SumOver(_, _)
SumOver(f, S) ==
    IF S = {} THEN 0
    ELSE LET x == CHOOSE y \in S : TRUE IN f[x] + SumOver(f, S \ {x})

GeneratedCount == SumOver([i \in Indices |-> nodes[src_id(i)].flit_gen_count], Indices)
ArrivedCount == SumOver([i \in Indices |-> nodes[dst_id(i)].flit_arrive_count], Indices)

\* C4: every flit generated and not yet consumed is held in exactly one of the
\* channel buffers, input buffers and st_ready slots: no flit is held twice,
\* every held flit was generated, and generated = arrived + held.
C4_ExclusiveOwnership ==
    /\ \A a \in FlitLocations : \A b \in FlitLocations : a[4] = b[4] => a = b
    /\ \A a \in FlitLocations :
          a[4][2] < nodes[src_id(a[4][1])].flit_gen_count
    /\ GeneratedCount = ArrivedCount + Cardinality(FlitLocations)

C4_Witness ==
    /\ ChannelLocations # {}
    /\ BufferLocations # {}
    /\ StagedLocations # {}
    /\ ArrivedCount > 0

----------------------------------------------------------------------------
\* Channel contents seen by the receivers: the flits wait for the downstream
\* node, the credits for the upstream node.
PendingFlitTimes(c) == FlitTimes(channels[c].buf)
PendingCreditTimes(c) == channels[c].buf_credit

TimesOf(q) == {q[i] : i \in 1..Len(q)}

NothingStagnant ==
    /\ failed \notin {"stagnant_flit", "stagnant_credit"}
    /\ \A c \in ChannelKeys :
          /\ \A t \in TimesOf(PendingFlitTimes(c)) :
                /\ t >= curr_time
                /\ t <= curr_time + delay
                /\ nodes[Down(c).id].last_tick = curr_time => t > curr_time
          /\ \A t \in TimesOf(PendingCreditTimes(c)) :
                /\ t >= curr_time
                /\ t <= curr_time + delay
                /\ nodes[Up(c).id].last_tick = curr_time => t > curr_time

\* An item leaves a channel buffer only in a step to its release time.
TakenWhenDue ==
    \A c \in ChannelKeys :
        /\ (channels[c].buf # <<>> /\
            (channels'[c].buf = <<>> \/ Head(channels'[c].buf) # Head(channels[c].buf)))
              => Head(channels[c].buf)[1] = curr_time'
        /\ (channels[c].buf_credit # <<>> /\
            (channels'[c].buf_credit = <<>>
                \/ Head(channels'[c].buf_credit) # Head(channels[c].buf_credit)))
              => Head(channels[c].buf_credit) = curr_time'

\* C5: a flit or credit put at time t (release time t + delay) is taken out
\* of its channel exactly in the receiver's tick at t + delay: it is never
\* taken at another time, never left behind by the receiver's tick of its
\* release cycle, and the stagnant assertions of get()/get_credit() never fire.
C5_ExactChannelDelivery == [][NothingStagnant' /\ TakenWhenDue]_vars

C5_Witness ==
    /\ delay = MaxDelay
    /\ \E c \in ChannelKeys :
          /\ Down(c).id \in RtrIds /\ Up(c).id \in RtrIds
          /\ DownInput(c).buf # <<>>
          /\ nodes[Down(c).id].last_tick = curr_time
    /\ \E c \in ChannelKeys :
          /\ UpOutput(c).buf_credit
          /\ nodes[Up(c).id].last_tick = curr_time

----------------------------------------------------------------------------
\* The flits of channel c in the order they were put on it, oldest first:
\* staged downstream, buffered downstream, in flight, staged upstream.
RECURSIVE StagedFor(_, _)
StagedFor(c, i) ==
    IF i >= RadixOf(Up(c).id) THEN <<>>
    ELSE (IF i \in UpStaged(c)
          THEN <<nodes[Up(c).id].input_units[i].st_ready>> ELSE <<>>)
         \o StagedFor(c, i + 1)

ChannelOrder(c) ==
    (IF DownInput(c).st_ready # NoFlit THEN <<DownInput(c).st_ready>> ELSE <<>>)
    \o DownInput(c).buf
    \o [i \in 1..Len(channels[c].buf) |-> channels[c].buf[i][2]]
    \o StagedFor(c, 0)

\* b may directly follow a on a channel
Follows(a, b) ==
    IF a.type = "Tail" THEN b.type = "Head"
    ELSE /\ b.type \in {"Body", "Tail"}
         /\ b.route_info.src = a.route_info.src
         /\ b.payload = a.payload + 1
         /\ b.ptr = <<a.ptr[1], a.ptr[2] + 1>>

NoInterleaving ==
    \A c \in ChannelKeys :
        \A i \in 1..(Len(ChannelOrder(c)) - 1) :
            Follows(ChannelOrder(c)[i], ChannelOrder(c)[i + 1])

\* A new flit in st_ready: the switch_alloc grant of this step.
Granted(id, i) ==
    /\ nodes'[id].input_units[i].st_ready # NoFlit
    /\ nodes'[id].input_units[i].st_ready # nodes[id].input_units[i].st_ready

InputPortKept ==
    \A id \in RtrIds : \A p \in Ports(id) :
        LET ou == nodes[id].output_units[p]
            ou2 == nodes'[id].output_units[p]
        IN /\ (ou.global # "Idle" /\ ou2.global # "Idle")
                => ou2.input_port = ou.input_port
           /\ \A i \in Ports(id) :
                (Granted(id, i) /\ nodes[id].input_units[i].route_port = p)
                    => (ou.global = "Active" /\ ou.input_port = i)

\* C6: while an output unit is held by a packet (not Idle) its input_port
\* does not change, every switch_alloc grant for the port goes to that
\* input_port, and on every channel a Head or Body flit is directly followed
\* by the next flit of the same packet and a Tail by a Head.
C6_PacketAtomicity == [][NoInterleaving' /\ InputPortKept]_vars

C6_Witness ==
    \E id \in RtrIds : \E p \in Ports(id) : \E j \in Ports(id) :
        LET ou == nodes[id].output_units[p]
            c == output_channel(id, p)
        IN /\ ou.global # "Idle"
           /\ j # ou.input_port
           /\ nodes[id].input_units[j].global = "VCWait"
           /\ nodes[id].input_units[j].route_port = p
           /\ Len(ChannelOrder(c)) >= 2
           /\ ChannelOrder(c)[1].type # "Tail"

----------------------------------------------------------------------------
Holders(id, p) ==
    {i \in Ports(id) :
        /\ nodes[id].input_units[i].stage = "SA"
        /\ nodes[id].input_units[i].route_port = p}

\* vc_alloc's grant of this step: input i enters stage SA.
VAGranted(id, i) ==
    /\ nodes[id].input_units[i].stage = "VA"
    /\ nodes'[id].input_units[i].stage = "SA"

GrantedOnlyWhenFree ==
    \A id \in RtrIds : \A i \in Ports(id) :
        VAGranted(id, i) =>
            LET p == nodes[id].input_units[i].route_port
            IN /\ nodes[id].output_units[p].global = "Idle"
               /\ Holders(id, p) = {}

AtMostOneHolder ==
    \A id \in RtrIds : \A p \in Ports(id) : Cardinality(Holders(id, p)) <= 1

\* C7: at most one input unit of a router is in stage SA with route_port p,
\* and vc_alloc grants p to an input only when the output unit has committed
\* Idle and no input holds p.
C7_VAExclusivity == [][AtMostOneHolder' /\ GrantedOnlyWhenFree]_vars

C7_Witness ==
    \E id \in RtrIds : \E p \in Ports(id) : \E j \in Ports(id) :
        /\ Cardinality(Holders(id, p)) = 1
        /\ j \notin Holders(id, p)
        /\ nodes[id].input_units[j].global = "VCWait"
        /\ nodes[id].input_units[j].route_port = p
        /\ nodes[id].va_last_grant_input # 0

----------------------------------------------------------------------------
\* Flits on their way out of router id through port 0, or already with the
\* destination.
EjectedAt(i) ==
    LET q == ChannelOrder(output_channel(rtr_id(i), 0))
    IN {q[k] : k \in 1..Len(q)}

\* C8: route_compute never reads outside the path, a routed input unit has
\* route_port 0 exactly at the router of its flit's destination, and every
\* flit ejected towards destination i has dst = i.
C8_RoutingReachesDestination ==
    /\ failed # "rc_idx_out_of_bounds"
    /\ \A i \in Indices :
          /\ \A f \in EjectedAt(i) : f.route_info.dst = i
          /\ \A p \in Ports(rtr_id(i)) :
                LET iu == nodes[rtr_id(i)].input_units[p]
                IN /\ (iu.stage \in {"VA", "SA"} /\ iu.buf # <<>>)
                        => (iu.route_port = 0 <=> Head(iu.buf).route_info.dst = i)
                   /\ iu.st_ready # NoFlit
                        => (iu.route_port = 0 <=> iu.st_ready.route_info.dst = i)
                   /\ \A k \in 1..Len(iu.buf) :
                        iu.buf[k].type = "Head" =>
                            iu.buf[k].route_info.idx <= Len(iu.buf[k].route_info.path)

C8_Witness ==
    \E i \in Indices :
        /\ nodes[dst_id(i)].flit_arrive_count > 0
        /\ nodes[dst_id(i)].input_units[0].buf # <<>>
        /\ Head(nodes[dst_id(i)].input_units[0].buf).type = "Body"

----------------------------------------------------------------------------
RingDistance == (rc_in.dst - rc_in.src + rc_in.k) % rc_in.k

\* C9: on a ring of size k with d = (dst - src + k) mod k, the path is d
\* copies of port 2 and a final 0 when d <= k/2, and k - d copies of port 1
\* and a final 0 otherwise; for src = dst it is <<0>>.
C9_SourceRoute ==
    rc_out # <<>> =>
        LET d == RingDistance
            hops == Len(rc_out) - 1
        IN /\ rc_out[Len(rc_out)] = 0
           /\ IF 2 * d <= rc_in.k
              THEN hops = d /\ \A i \in 1..hops : rc_out[i] = 2
              ELSE hops = rc_in.k - d /\ \A i \in 1..hops : rc_out[i] = 1
           /\ rc_in.src = rc_in.dst => rc_out = <<0>>

C9_Witness ==
    /\ rc_in.k = 4
    /\ RingDistance = 2
    /\ rc_out = <<2, 2, 0>>

----------------------------------------------------------------------------
TopoCalled == topo_res.input \in TopoPorts

\* C10: topology_connect fails and leaves both maps unchanged when the
\* out-side is already in the forward map or the in-side already in the
\* reverse map; otherwise it succeeds and adds one connection, the same in
\* both maps, under the two keys.
C10_ConnectConflict ==
    TopoCalled =>
        LET b == topo_res.before
            bound == \/ topo_res.input \in DOMAIN b.forward_hash
                     \/ topo_res.output \in DOMAIN b.reverse_hash
        IN IF bound
           THEN ~topo_res.ok /\ topo = b
           ELSE /\ topo_res.ok
                /\ DOMAIN topo.forward_hash =
                       DOMAIN b.forward_hash \cup {topo_res.input}
                /\ DOMAIN topo.reverse_hash =
                       DOMAIN b.reverse_hash \cup {topo_res.output}
                /\ \A k \in DOMAIN b.forward_hash :
                       topo.forward_hash[k] = b.forward_hash[k]
                /\ \A k \in DOMAIN b.reverse_hash :
                       topo.reverse_hash[k] = b.reverse_hash[k]
                /\ topo.forward_hash[topo_res.input].src = topo_res.input
                /\ topo.forward_hash[topo_res.input].dst = topo_res.output
                /\ topo.reverse_hash[topo_res.output] =
                       topo.forward_hash[topo_res.input]

\* the second of two identical connect calls
C10_Witness ==
    /\ TopoCalled
    /\ ~topo_res.ok
    /\ topo = topo_res.before
    /\ topo_res.input \in DOMAIN topo.forward_hash
    /\ topo.forward_hash[topo_res.input].dst = topo_res.output
    /\ hmlen(topo.forward_hash) = 1

----------------------------------------------------------------------------
(* Ring construction *)

PairOf(conn) == [src |-> conn.src, dst |-> conn.dst]

ConnectionsOf(m) == {PairOf(m[k]) : k \in DOMAIN m}

RingConnections(n) ==
    UNION {{[src |-> RouterPortPair(rtr_id(i), 2),
             dst |-> RouterPortPair(rtr_id((i + 1) % n), 1)],
            [src |-> RouterPortPair(rtr_id((i + 1) % n), 1),
             dst |-> RouterPortPair(rtr_id(i), 2)],
            [src |-> RouterPortPair(src_id(i), 0),
             dst |-> RouterPortPair(rtr_id(i), 0)],
            [src |-> RouterPortPair(rtr_id(i), 0),
             dst |-> RouterPortPair(dst_id(i), 0)]} : i \in 0..(n - 1)}

BoundOnceEachSide(t, pp) ==
    /\ Cardinality({k \in DOMAIN t.forward_hash :
                        t.forward_hash[k].src = pp}) = 1
    /\ Cardinality({k \in DOMAIN t.forward_hash :
                        t.forward_hash[k].dst = pp}) = 1

\* C11: for every n >= 1 (here 1..MaxRing) topology_ring(n) succeeds (its
\* assert(res) holds) and the topology holds exactly the connections
\* (router i, 2) -> (router (i+1) mod n, 1) and back, (source i, 0) ->
\* (router i, 0) and (router i, 0) -> (destination i, 0), in both maps, each
\* keyed by its own side; every router port 0..2 is bound exactly once as an
\* out-side and exactly once as an in-side.  The stepwise construction agrees
\* with the function topology_ring.
C11_RingConstruction ==
    ring.phase = "done" =>
        /\ ring.res
        /\ topology_ring(ring.n) = [ok |-> TRUE, t |-> topo]
        /\ ConnectionsOf(topo.forward_hash) = RingConnections(ring.n)
        /\ ConnectionsOf(topo.reverse_hash) = RingConnections(ring.n)
        /\ \A k \in DOMAIN topo.forward_hash : topo.forward_hash[k].src = k
        /\ \A k \in DOMAIN topo.reverse_hash :
               /\ topo.reverse_hash[k].dst = k
               /\ topo.forward_hash[topo.reverse_hash[k].src]
                     = topo.reverse_hash[k]
        /\ \A i \in 0..(ring.n - 1), p \in 0..(RouterRadix - 1) :
               BoundOnceEachSide(topo, RouterPortPair(rtr_id(i), p))

C11_Witness ==
    /\ ring.phase = "done"
    /\ ring.n = MaxRing
    /\ hmlen(topo.forward_hash) = 4 * MaxRing

----------------------------------------------------------------------------
(* Double-tick suppression *)

\* The next event goes to a node that already ticked in that cycle.
RepeatedTickPending ==
    /\ CanDispatch
    /\ nodes[Head(eventq).id].last_tick = Head(eventq).time

\* The step ran the stages of node id.
StagesRan(id) == nodes'[id] # nodes[id]

\* C12: a tick dispatched to a node whose last_tick equals the time of the
\* event only increments double_tick_count: no node, no channel and no
\* pending event changes (the driver has popped the dispatched event), and
\* nothing fails.  The stages of a node run only in a cycle later than its
\* last tick, and channels change only in a step in which some node's stages
\* ran, so the stages run at most once per value of curr_time.
C12_DoubleTickFrame ==
    [][/\ RepeatedTickPending =>
            /\ double_tick_count' = double_tick_count + 1
            /\ nodes' = nodes
            /\ channels' = channels
            /\ eventq' = Tail(eventq)
            /\ failed' = failed
       /\ ~RepeatedTickPending => double_tick_count' = double_tick_count
       /\ \A id \in NodeIds :
            StagesRan(id) =>
                /\ nodes[id].last_tick < curr_time'
                /\ nodes'[id].last_tick = curr_time'
       /\ channels' # channels =>
            \E id \in NodeIds : nodes'[id].last_tick # nodes[id].last_tick
      ]_vars

C12_Witness ==
    /\ double_tick_count >= 2
    /\ \E id \in RtrIds : nodes[id].last_tick = curr_time
    /\ \E id \in SrcIds : nodes[id].last_tick = curr_time

----------------------------------------------------------------------------
(* State/stage coherence *)

Coherent(iu) ==
    /\ iu.stage = "RC" => iu.global = "Routing"
    /\ iu.stage = "VA" => iu.global = "VCWait"
    /\ iu.stage = "SA" => iu.global \in {"Active", "CreditWait"}

\* C13: after every tick (update_states has committed next_global), each
\* input unit of every router, and of every terminal node, has stage RC only
\* in state Routing, stage VA only in state VCWait, and stage SA only in
\* state Active or CreditWait.
C13_StateStageCoherence ==
    \A id \in NodeIds : \A p \in Ports(id) : Coherent(nodes[id].input_units[p])

C13_Witness ==
    \E id \in RtrIds : \E p, q, r \in Ports(id) :
        /\ nodes[id].input_units[p].stage = "SA"
        /\ nodes[id].input_units[p].global = "CreditWait"
        /\ nodes[id].input_units[q].stage = "VA"
        /\ \E id2 \in RtrIds : nodes[id2].input_units[r].stage = "RC"

----------------------------------------------------------------------------
(* Delivery *)

MainSeeds == {0, 1, 2}      \* main.c: schedule(0, tick_event_from_id(src_id(i)))

\* The run was started as main starts it: exactly the sources 0, 1, 2 tick.
MainSources ==
    /\ \A i \in MainSeeds : nodes[src_id(i)].last_tick >= 0
    /\ \A i \in Indices \ MainSeeds :
          /\ nodes[src_id(i)].last_tick = -1
          /\ \A k \in 1..Len(eventq) : eventq[k].id # src_id(i)

\* The program no longer takes any step: an assertion aborted it or no event
\* is left.
Stopped == failed # "none" \/ eventq = <<>>

----------------------------------------------------------------------------
(* Credit stall of a source *)

SrcOut(id) == nodes[id].output_units[0]

\* Source id is stopped and the first returned credit has reached it: its
\* last tick (at nodes[id].last_tick) fetched the credit into buf_credit.
StoppedWithCredit(id) == SrcOut(id).credit_count = 0 /\ SrcOut(id).buf_credit

Sent(id) == nodes'[id].flit_gen_count = nodes[id].flit_gen_count + 1

\* C15 as stated: a stopped source sends its next flit within `delay` cycles
\* after the first credit returned to it, i.e. its tick `delay` cycles after
\* the tick that fetched the credit sends a flit unless an earlier one did.
C15_ResumeWithinDelay ==
    [][\A id \in SrcIds :
          /\ StoppedWithCredit(id)
          /\ StagesRan(id)
          /\ curr_time' = nodes[id].last_tick + delay
          => Sent(id)]_vars

\* C15: a tick of a source sends a flit exactly when it starts with
\* credit_count > 0 and sends nothing when it starts with credit_count = 0.
\* A stopped source that has fetched a returned credit ticks in the next
\* cycle, where source_generate stalls once more and credit_update then
\* raises credit_count to 1; a source with credit ticks in the next cycle
\* and sends.  So the next flit leaves two cycles after the tick that
\* fetched the first credit, whatever the channel delay.
C15_CreditStallBoundary ==
    [][\A id \in SrcIds :
          StagesRan(id) =>
            /\ Sent(id) <=> SrcOut(id).credit_count > 0
            /\ ~Sent(id) => nodes'[id].flit_gen_count = nodes[id].flit_gen_count
            /\ StoppedWithCredit(id) =>
                  /\ curr_time' = nodes[id].last_tick + 1
                  /\ nodes'[id].output_units[0].credit_count = 1
            /\ (SrcOut(id).credit_count > 0 /\ nodes[id].last_tick >= 0) =>
                  curr_time' = nodes[id].last_tick + 1]_vars

\* A source with a single credit has stopped, got its credit back and sent
\* its second flit.
C15_Witness ==
    \E id \in SrcIds :
        /\ input_buf_size = 1
        /\ delay = 1
        /\ nodes[id].flit_gen_count = 2
        /\ SrcOut(id).credit_count = 0
        /\ nodes[id].last_tick = curr_time

----------------------------------------------------------------------------
(* Contention between two inputs *)

\* Input j is a contender for output port p in vc_alloc.
WaitsFor(id, j, p) ==
    /\ nodes[id].input_units[j].global = "VCWait"
    /\ nodes[id].input_units[j].route_port = p

\* vc_alloc grants p to input i, which also got the previous packet on p
\* (output_units[p].input_port still names the previous holder), although
\* input j contends for p.
GrantedAgainOver(id, i, j, p) ==
    /\ VAGranted(id, i)
    /\ nodes[id].input_units[i].route_port = p
    /\ nodes[id].output_units[p].input_port = i
    /\ j # i
    /\ WaitsFor(id, j, p)

NoConsecutiveGrant ==
    \A id \in RtrIds : \A i, j, p \in Ports(id) : ~GrantedAgainOver(id, i, j, p)

----------------------------------------------------------------------------
(* Channel get *)

\* The outcome required of a get on buffer b (items with release time time(x))
\* at time t, and of the buffer after left behind.
NothingTaken(b, after) == ~chan_res.got /\ after = b

HeadTaken(b, after) == chan_res.got /\ after = Tail(b)

\* C17: get() on an empty flit buffer, or one whose head has a release time
\* later than curr_time, returns nothing and leaves the buffer unchanged,
\* also when the call is repeated; when the head's release time equals
\* curr_time it returns the head's flit and leaves the tail of the buffer.
\* get_credit() does the same on the credit buffer.  Neither touches the
\* other buffer, and no assertion fails in these cases.
C17_GetFrame ==
    LET b == chan_res.before.buf
        bc == chan_res.before.buf_credit
        t == chan_res.now
        ch == channels[Chan0]
    IN /\ chan_res.op = "get" =>
            /\ ch.buf_credit = bc
            /\ (b = <<>> \/ b[1][1] > t) =>
                    /\ failed = "none"
                    /\ NothingTaken(b, ch.buf)
                    /\ chan_res.item = NoFlit
            /\ (b # <<>> /\ b[1][1] = t) =>
                    /\ failed = "none"
                    /\ HeadTaken(b, ch.buf)
                    /\ chan_res.item = b[1][2]
       /\ chan_res.op = "get_credit" =>
            /\ ch.buf = b
            /\ (bc = <<>> \/ bc[1] > t) =>
                    failed = "none" /\ NothingTaken(bc, ch.buf_credit)
            /\ (bc # <<>> /\ bc[1] = t) =>
                    failed = "none" /\ HeadTaken(bc, ch.buf_credit)

\* get() returned the head of a two-item buffer at its release time after
\* repeated calls had returned nothing, and so did get_credit() before.
C17_Witness ==
    /\ chan_res.op = "get"
    /\ chan_res.got
    /\ chan_res.misses = MaxMisses
    /\ chan_res.credit_misses = MaxMisses
    /\ Len(chan_res.before.buf) = MaxChanLen
    /\ Len(channels[Chan0].buf_credit) = 1

----------------------------------------------------------------------------
(* Progress of a flit through the pipeline of a router *)

\* How far the flit at the head of an input buffer has got: 1 fetched,
\* 2 route computed, 3 VC allocated.
HeadPhase(iu) ==
    IF iu.stage = "VA" THEN 2 ELSE IF iu.stage = "SA" THEN 3 ELSE 1

\* Pairs <<phase, flit>> of the flits at router id in the state ns, chs:
\* 0 on an input channel, 1..3 in an input buffer, 4 switch allocated (in
\* st_ready), 5 put on an output channel.
PhasesAt(ns, chs, id) ==
    UNION {
        {<<0, chs[input_channel(id, p)].buf[i][2]>> :
            i \in 1..Len(chs[input_channel(id, p)].buf)}
        \cup {<<IF i = 1 THEN HeadPhase(ns[id].input_units[p]) ELSE 1,
                ns[id].input_units[p].buf[i]>> :
                i \in 1..Len(ns[id].input_units[p].buf)}
        \cup (IF ns[id].input_units[p].st_ready = NoFlit THEN {}
              ELSE {<<4, ns[id].input_units[p].st_ready>>})
        \cup {<<5, chs[output_channel(id, p)].buf[i][2]>> :
                i \in 1..Len(chs[output_channel(id, p)].buf)}
        : p \in Ports(id)}

HeadPhases(ns, chs, id) ==
    {<<x[1], x[2].ptr>> : x \in {y \in PhasesAt(ns, chs, id) : y[2].type = "Head"}}

\* No Head flit at a router is two phases further after a step.
OneStagePerTick ==
    \A id \in RtrIds :
        \A a \in HeadPhases(nodes, channels, id) :
            \A b \in HeadPhases(nodes', channels', id) :
                a[2] = b[2] => (a[1] <= b[1] /\ b[1] <= a[1] + 1)

\* The first Head of source i reaches router i at cycle `delay`; phase k + 1
\* is reached by a tick of the router at cycle delay + k or later.
FirstHeadTiming ==
    \A i \in Indices :
        \A a \in HeadPhases(nodes, channels, rtr_id(i)) :
            (a[2] = <<i, 0>> /\ a[1] >= 1) =>
                nodes[rtr_id(i)].last_tick >= delay + a[1] - 1

\* C18: a Head flit advances by at most one pipeline stage per tick of the
\* router (fetched, route computed, VC allocated, switch allocated, put on
\* the output channel) and never moves back; as a router ticks at most once
\* per cycle, a Head fetched at cycle T is route computed at T+1 or later,
\* VC allocated at T+2 or later, switch allocated at T+3 or later and put on
\* the output channel at T+4 or later (checked with T = delay for the first
\* Head of every source).
C18_OneStagePerCycle == [][OneStagePerTick /\ FirstHeadTiming']_vars

\* The first Head of a source has been put on the output channel of its
\* router exactly four cycles after it was fetched.
C18_Witness ==
    \E i \in Indices :
        /\ <<5, <<i, 0>>>> \in HeadPhases(nodes, channels, rtr_id(i))
        /\ nodes[rtr_id(i)].last_tick = delay + 4
        /\ curr_time = delay + 4

----------------------------------------------------------------------------
(* Destination *)

DstBuf(id) == nodes[id].input_units[0].buf

DstChan(id) == channels[input_channel(id, 0)]

\* The input channel of destination id delivers a flit in the cycle of the
\* step (its head is released at curr_time').
DeliveredNow(id) ==
    /\ DstChan(id).buf # <<>>
    /\ DstChan(id).buf[1][1] = curr_time'

Consumed(id) ==
    nodes'[id].flit_arrive_count = nodes[id].flit_arrive_count + 1

CreditPushed(id) ==
    channels'[input_channel(id, 0)].buf_credit
        = Append(DstChan(id).buf_credit, curr_time' + delay)

\* C19 as stated: the tick of a destination at the cycle in which its input
\* channel delivers a flit consumes that flit: flit_arrive_count is
\* incremented, a credit is pushed and the flit is not left in the buffer.
C19_ConsumedOnDelivery ==
    [][\A id \in DstIds :
          (StagesRan(id) /\ DeliveredNow(id)) =>
              /\ Consumed(id)
              /\ CreditPushed(id)
              /\ nodes'[id].input_units[0].buf = <<>>]_vars

\* C19: a destination tick consumes first and fetches afterwards.  The flit
\* delivered in the cycle of the tick is fetched into the input buffer and
\* stays there; the tick consumes (count incremented, one credit pushed)
\* exactly when the buffer already held a flit, which was fetched by the
\* previous tick one cycle earlier.
C19_ConsumedNextCycle ==
    [][\A id \in DstIds :
          StagesRan(id) =>
              /\ DeliveredNow(id) =>
                    nodes'[id].input_units[0].buf = <<DstChan(id).buf[1][2]>>
              /\ ~DeliveredNow(id) => nodes'[id].input_units[0].buf = <<>>
              /\ DstBuf(id) # <<>> =>
                    /\ Consumed(id)
                    /\ CreditPushed(id)
                    /\ curr_time' = nodes[id].last_tick + 1
              /\ DstBuf(id) = <<>> =>
                    /\ ~Consumed(id)
                    /\ channels'[input_channel(id, 0)].buf_credit
                         = DstChan(id).buf_credit]_vars

C19_Witness ==
    \E id \in DstIds :
        /\ nodes[id].flit_arrive_count >= 1
        /\ DstBuf(id) # <<>>
        /\ nodes[id].last_tick = curr_time

\* C20: the input buffer of a destination never holds more than one flit,
\* so destination_consume always finds at most one and its assertion that
\* the buffer is empty after the pop never fails.
C20_DestinationDrains ==
    /\ \A id \in DstIds : Len(DstBuf(id)) <= 1
    /\ failed # "destination_buf_not_drained"

\* A destination has consumed a whole packet and more, flits arriving back
\* to back and after a gap.
C20_Witness ==
    \E id \in DstIds :
        /\ nodes[id].flit_arrive_count > TailCounter + 1
        /\ DstBuf(id) = <<>>
        /\ nodes[id].last_tick = curr_time
        /\ failed = "none"

----------------------------------------------------------------------------
(* Source packet framing *)

SrcChanBuf(id) == channels[output_channel(id, 0)].buf

\* The type a flit with payload counter k must have.
FramedType(k) == IF k = 0 THEN "Head" ELSE IF k = 3 THEN "Tail" ELSE "Body"

\* Flit f is the k-th flit (from 0) source id generates.
Framed(f, id, k) ==
    /\ f.payload = k % 4
    /\ f.type = FramedType(k % 4)
    /\ f.route_info.src = id.value
    /\ (f.route_info.path # <<>>) <=> (f.type = "Head")

\* The tick of source id put exactly flit number flit_gen_count on its
\* channel.
PutNextFlit(id) ==
    /\ Len(SrcChanBuf(id)') = Len(SrcChanBuf(id)) + 1
    /\ \A i \in 1..Len(SrcChanBuf(id)) : SrcChanBuf(id)'[i] = SrcChanBuf(id)[i]
    /\ Framed(SrcChanBuf(id)'[Len(SrcChanBuf(id)')][2], id,
              nodes[id].flit_gen_count)
    /\ nodes'[id].flit_gen_count = nodes[id].flit_gen_count + 1
    /\ nodes'[id].flit_payload_counter = (nodes[id].flit_payload_counter + 1) % 4

\* The tick of source id put nothing on its channel and kept its counters.
PutNothing(id) ==
    /\ SrcChanBuf(id)' = SrcChanBuf(id)
    /\ nodes'[id].flit_gen_count = nodes[id].flit_gen_count
    /\ nodes'[id].flit_payload_counter = nodes[id].flit_payload_counter

\* C21: the k-th flit a source puts on its channel has payload counter
\* k mod 4 and type Head, Body, Body, Tail in turn, and only the Head carries a
\* path: the payload counter always equals the number of flits generated
\* mod 4, a tick that starts with a credit appends exactly the next flit of
\* the sequence, and a tick that starts credit-stalled appends nothing and
\* keeps the counter.
C21_SourceFraming ==
    [][\A id \in SrcIds :
          /\ nodes[id].flit_payload_counter = nodes[id].flit_gen_count % 4
          /\ StagesRan(id) =>
                IF SrcOut(id).credit_count > 0 THEN PutNextFlit(id)
                ELSE PutNothing(id)]_vars

\* A source with two credits has stalled inside its first packet and has
\* since sent the Head of its second packet.
C21_Witness ==
    \E id \in SrcIds :
        /\ input_buf_size = 2
        /\ nodes[id].flit_gen_count = 5
        /\ nodes[id].flit_payload_counter = 1
        /\ SrcChanBuf(id) # <<>>
        /\ SrcChanBuf(id)[Len(SrcChanBuf(id))][2].type = "Head"

----------------------------------------------------------------------------
(* Tail release *)

\* switch_alloc of this step granted input i of router id a Tail flit.
TailGranted(id, i) ==
    /\ Granted(id, i)
    /\ nodes'[id].input_units[i].st_ready.type = "Tail"

\* The tick of this step fetched a flit for input i of router id.
Fetched(id, i) ==
    /\ channels[input_channel(id, i)].buf # <<>>
    /\ channels'[input_channel(id, i)].buf = Tail(channels[input_channel(id, i)].buf)

TailReleased(id, i) ==
    LET iu == nodes[id].input_units[i]
        iu2 == nodes'[id].input_units[i]
        ou2 == nodes'[id].output_units[iu.route_port]
        rest == Tail(iu.buf)
    IN /\ ou2.next_global = "Idle"
       /\ ou2.global = "Idle"
       /\ iu2.next_global = iu2.global
       /\ IF rest = <<>> /\ ~Fetched(id, i)
          THEN iu2.global = "Idle" /\ iu2.stage = "Idle" /\ iu2.buf = <<>>
          ELSE iu2.global = "Routing" /\ iu2.stage = "RC" /\ iu2.buf # <<>>

\* C22: a tick in which switch_alloc grants a Tail flit leaves the output
\* unit Idle, whatever its credit count and whatever is in the input buffer;
\* it leaves the input unit Idle with stage Idle when the buffer is empty
\* after the pop and nothing is fetched into it in this tick, and Routing
\* with stage RC when a flit is left in the buffer or fetched into the
\* emptied buffer later in the tick.  An Idle input unit never has a
\* buffered flit.
C22_TailRelease ==
    [][\A id \in RtrIds : \A i \in Ports(id) :
          /\ TailGranted(id, i) => TailReleased(id, i)
          /\ nodes'[id].input_units[i].global = "Idle"
                => nodes'[id].input_units[i].buf = <<>>]_vars

\* Source 2 is the only source, with buffer size 5 and delay 2.  Router 3,
\* the second router of the path, is granted each flit of the first packet
\* in the cycle after it arrives: the Tail is alone in the buffer when it is
\* granted at cycle 14, and the Head of the second packet, fetched in the
\* same tick, has moved the input unit to Routing/RC.
C22_Witness ==
    LET iu == nodes[rtr_id(3)].input_units[1]
    IN /\ input_buf_size = 5
       /\ delay = 2
       /\ \A k \in Indices \ {2} : nodes[src_id(k)].last_tick = -1
       /\ curr_time = 14
       /\ nodes[rtr_id(3)].last_tick = curr_time
       /\ iu.st_ready # NoFlit
       /\ iu.st_ready.type = "Tail"
       /\ iu.st_ready.ptr = <<2, 3>>
       /\ Len(iu.buf) = 1
       /\ iu.buf[1].type = "Head"
       /\ iu.buf[1].ptr = <<2, 4>>
       /\ iu.global = "Routing"
       /\ iu.stage = "RC"
       /\ nodes[rtr_id(3)].output_units[2].global = "Idle"

----------------------------------------------------------------------------
(* Arbiter result *)

\* Steps from port a to port b in cyclic order.
CyclicDistance(a, b) == (b - a + RouterRadix) % RouterRadix

\* r is the first port of the set Q in cyclic order from (last + 1) mod radix,
\* and the pointer is r afterwards; with Q empty r is -1 and the pointer is
\* still last.
FirstFromNext(Q, last, r, pointer) ==
    LET start == (last + 1) % RouterRadix
    IN IF Q = {}
       THEN r = -1 /\ pointer = last
       ELSE /\ r \in Q
            /\ \A j \in Q : CyclicDistance(start, r) <= CyclicDistance(start, j)
            /\ pointer = r

VCWaiting(out_port) ==
    {i \in ArbPorts :
        /\ nodes[ArbRouter].input_units[i].global = "VCWait"
        /\ nodes[ArbRouter].input_units[i].route_port = out_port}

SAReady(out_port) ==
    {i \in ArbPorts :
        /\ nodes[ArbRouter].input_units[i].stage = "SA"
        /\ nodes[ArbRouter].input_units[i].route_port = out_port
        /\ nodes[ArbRouter].input_units[i].global = "Active"}

\* C23: vc_arbit(out_port) returns the first input port, in cyclic order
\* from (va_last_grant_input + 1) mod radix, that is in VCWait with route_port
\* = out_port and stores it in va_last_grant_input; sa_arbit(out_port)
\* returns the first input port in the same order from sa_last_grant_input
\* that is in stage SA, Active, with route_port = out_port (an input in
\* CreditWait is passed over) and stores it in sa_last_grant_input.  Each
\* returns -1 and keeps its pointer when no input qualifies, and no assertion
\* fails.
C23_ArbiterResult ==
    /\ failed = "none"
    /\ arb_res.op = "vc_arbit" =>
          FirstFromNext(VCWaiting(arb_res.out_port), arb_res.last.va,
                        arb_res.result, nodes[ArbRouter].va_last_grant_input)
    /\ arb_res.op = "sa_arbit" =>
          FirstFromNext(SAReady(arb_res.out_port), arb_res.last.sa,
                        arb_res.result, nodes[ArbRouter].sa_last_grant_input)

\* sa_arbit started at port 2, passed over an input in CreditWait for the
\* same output port, wrapped around and granted port 1.
C23_Witness ==
    /\ arb_res.op = "sa_arbit"
    /\ arb_res.last.sa = 1
    /\ arb_res.result = 1
    /\ nodes[ArbRouter].input_units[2].global = "CreditWait"
    /\ nodes[ArbRouter].input_units[2].route_port = arb_res.out_port
    /\ nodes[ArbRouter].input_units[0].global = "VCWait"
    /\ nodes[ArbRouter].input_units[0].route_port = arb_res.out_port

----------------------------------------------------------------------------
(* Round-robin per output port *)

\* vc_alloc of this step granted output port p of router id to input i.
VAGrantedPort(id, i, p) ==
    /\ VAGranted(id, i)
    /\ nodes[id].input_units[i].route_port = p

\* The input that vc_alloc granted p the last time (vc_alloc records it in
\* the output unit); -1 before the first grant of p.
LastGrantedPort(id, p) == nodes[id].output_units[p].input_port

\* A grant of p goes to the first contender in cyclic order from one past
\* the input that was granted p the last time.
StartsPastLastGrantOfPort ==
    \A id \in RtrIds : \A i, p \in Ports(id) :
        (VAGrantedPort(id, i, p) /\ LastGrantedPort(id, p) # -1) =>
            LET start == (LastGrantedPort(id, p) + 1) % RouterRadix
            IN \A j \in Ports(id) :
                  WaitsFor(id, j, p) =>
                      CyclicDistance(start, i) <= CyclicDistance(start, j)

\* The VA pointer moves only to an input vc_alloc has granted in this step,
\* the SA pointer only to an input switch_alloc has granted.
PointersIndependent ==
    \A id \in RtrIds :
        /\ nodes'[id].va_last_grant_input # nodes[id].va_last_grant_input
              => VAGranted(id, nodes'[id].va_last_grant_input)
        /\ nodes'[id].sa_last_grant_input # nodes[id].sa_last_grant_input
              => Granted(id, nodes'[id].sa_last_grant_input)

----------------------------------------------------------------------------
(* CreditWait and the credit count *)

\* C25: update_states never commits CreditWait to an output unit that has a
\* credit: its assertion never fails and an output unit in CreditWait has
\* credit_count 0.  A tick that starts with a credit parked in buf_credit
\* never leaves the output unit in CreditWait, also when its vc_alloc or
\* switch_alloc has set next_global to CreditWait before credit_update
\* applies the credit.
C25_CreditWaitWithoutCredit ==
    [][/\ failed' # "update_states_creditwait_with_credit"
       /\ \A id \in NodeIds : \A p \in Ports(id) :
            LET ou == nodes[id].output_units[p]
                ou2 == nodes'[id].output_units[p]
            IN /\ ou2.global = "CreditWait" => ou2.credit_count = 0
               /\ (StagesRan(id) /\ ou.buf_credit) =>
                     /\ ou2.global # "CreditWait"
                     /\ ou2.credit_count > 0]_vars

\* A router has one output unit that vc_alloc put in CreditWait (the Head is
\* still in the buffer of its input unit) and another router one that
\* switch_alloc put there (its last credit went with the flit in st_ready).
C25_Witness ==
    /\ \E id \in RtrIds : \E p \in Ports(id) :
          LET ou == nodes[id].output_units[p]
              iu == nodes[id].input_units[ou.input_port]
          IN /\ ou.global = "CreditWait"
             /\ iu.global = "CreditWait"
             /\ iu.buf # <<>>
             /\ Head(iu.buf).type = "Head"
    /\ \E id \in RtrIds : \E p \in Ports(id) :
          LET ou == nodes[id].output_units[p]
              iu == nodes[id].input_units[ou.input_port]
          IN /\ ou.global = "CreditWait"
             /\ iu.st_ready # NoFlit
             /\ iu.route_port = p
             /\ nodes[id].last_tick = curr_time

----------------------------------------------------------------------------
(* Credit application *)

CreditNodes == SrcIds \cup RtrIds

\* The tick of this step took a credit out of the channel of output port p.
CreditFetched(id, p) ==
    /\ channels[output_channel(id, p)].buf_credit # <<>>
    /\ channels'[output_channel(id, p)].buf_credit
          = Tail(channels[output_channel(id, p)].buf_credit)

\* The tick of this step sent a flit towards output port p: a source made
\* one, a router's switch_alloc granted one.
SentOn(id, p) ==
    IF is_src(id) THEN Sent(id)
    ELSE \E i \in Ports(id) :
            Granted(id, i) /\ nodes[id].input_units[i].route_port = p

CreditApplied(id, p) ==
    LET ou == nodes[id].output_units[p]
        ou2 == nodes'[id].output_units[p]
        c == output_channel(id, p)
    IN \* fetched at its release time and parked, the only way to be parked
       /\ CreditFetched(id, p) => Head(channels[c].buf_credit) = curr_time'
       /\ ou2.buf_credit <=> CreditFetched(id, p)
       /\ ~CreditFetched(id, p) => channels'[c].buf_credit = channels[c].buf_credit
       \* a parked credit is counted once, in the tick of the next cycle
       /\ ou2.credit_count
            = ou.credit_count + Bit(ou.buf_credit) - Bit(SentOn(id, p))
       /\ ou.buf_credit => curr_time' = nodes[id].last_tick + 1
       \* and wakes the two units when they wait for it
       /\ (ou.buf_credit /\ ou.credit_count = 0 /\ ou.global = "CreditWait") =>
            /\ nodes[id].input_units[ou.input_port].global = "CreditWait"
            /\ ou2.global = "Active"
            /\ ou2.next_global = "Active"
            /\ nodes'[id].input_units[ou.input_port].global = "Active"
            /\ nodes'[id].input_units[ou.input_port].next_global = "Active"

\* C26: a credit is taken from an output channel at its release time t and
\* parked in buf_credit, which is set by nothing else; the node's next tick is
\* at t + 1 and counts the parked credit exactly once before anything is
\* fetched again, so no parked credit is overwritten (credit_count changes
\* by the parked credit minus the flit sent in the tick); when credit_count is
\* 0 and the output unit and its input unit are in CreditWait, both are
\* Active after that tick.  The assertions of credit_update never fail.
C26_CreditApplication ==
    [][/\ failed' \notin {"credit_update_no_input_port",
                         "credit_update_input_not_creditwait"}
       /\ \A id \in CreditNodes : \A p \in Ports(id) :
            StagesRan(id) => CreditApplied(id, p)]_vars

\* A router's units have just been woken by a credit: they are Active with
\* one credit, nothing was granted in this tick although flits of the packet
\* in progress were buffered before it.
C26_Witness ==
    \E id \in RtrIds : \E p \in Ports(id) :
        LET ou == nodes[id].output_units[p]
            iu == nodes[id].input_units[ou.input_port]
        IN /\ nodes[id].last_tick = curr_time
           /\ ou.global = "Active"
           /\ ou.credit_count = 1
           /\ ~ou.buf_credit
           /\ iu.global = "Active"
           /\ iu.stage = "SA"
           /\ iu.route_port = p
           /\ iu.st_ready = NoFlit
           /\ Len(iu.buf) >= 2
           /\ Head(iu.buf).type # "Head"

----------------------------------------------------------------------------
(* Switch allocation of an input without a flit *)

----------------------------------------------------------------------------
(* Input and output units in lockstep *)

\* Output unit p of router id and the input unit it names agree.
OutputHasItsInput(id, p) ==
    LET ou == nodes[id].output_units[p]
    IN ou.global \in {"Active", "CreditWait"} =>
          /\ ou.input_port \in Ports(id)
          /\ nodes[id].input_units[ou.input_port].route_port = p
          /\ nodes[id].input_units[ou.input_port].stage = "SA"
          /\ nodes[id].input_units[ou.input_port].global = ou.global

\* Input unit i of router id in stage SA is the one its output unit names.
InputHasItsOutput(id, i) ==
    LET iu == nodes[id].input_units[i]
    IN iu.stage = "SA" =>
          /\ iu.route_port \in Ports(id)
          /\ nodes[id].output_units[iu.route_port].input_port = i

\* C28: after every tick of a router, an output unit that is Active or in
\* CreditWait names in input_port an input unit with route_port equal to the
\* output port, stage SA and the same global state; and every input unit in
\* stage SA is the input_port of the output unit at its route_port.
C28_UnitsInLockstep ==
    \A id \in RtrIds : \A p \in Ports(id) :
        OutputHasItsInput(id, p) /\ InputHasItsOutput(id, p)

\* A router holds two packets at once, one pair of units Active and the other
\* in CreditWait.
C28_Witness ==
    \E id \in RtrIds : \E p, q \in Ports(id) :
        /\ nodes[id].output_units[p].global = "Active"
        /\ nodes[id].output_units[q].global = "CreditWait"
        /\ nodes[id].output_units[p].input_port
              # nodes[id].output_units[q].input_port
        /\ nodes[id].last_tick = curr_time

----------------------------------------------------------------------------
(* No lost wakeup *)

\* Node id can do something in its next tick without a new arrival: a router
\* has a flit to traverse, route, allocate or grant, a router or source has a
\* parked credit to count, a destination has a flit to consume.  (The input
\* unit of a destination is left in Routing by fetch_flit; a destination does
\* no routing.)
HasWork(id) ==
    \/ /\ id \in RtrIds
       /\ \E p \in Ports(id) :
             LET iu == nodes[id].input_units[p]
             IN \/ iu.st_ready # NoFlit
                \/ iu.global = "Routing"
                \/ /\ iu.global = "VCWait"
                   /\ nodes[id].output_units[iu.route_port].global = "Idle"
                \/ iu.global = "Active" /\ iu.buf # <<>>
    \/ /\ id \in CreditNodes
       /\ \E p \in Ports(id) : nodes[id].output_units[p].buf_credit
    \/ /\ id \in DstIds
       /\ nodes[id].input_units[0].buf # <<>>

TickPending(id, time) ==
    \E k \in 1..Len(eventq) : eventq[k] = Event(time, id)

\* A node's record changes only in its own ticks, so between its tick at
\* cycle last_tick and its next tick the node is as that tick left it.
WorkIsScheduled ==
    \A id \in NodeIds :
        (nodes[id].last_tick >= 0 /\ HasWork(id)) =>
            TickPending(id, nodes[id].last_tick + 1)

\* A tick that finds a flit in st_ready runs one cycle after the tick that
\* put it there and puts the flit on the channel of its route_port.
StagedFlitLeaves ==
    \A id \in RtrIds : \A i \in Ports(id) :
        LET iu == nodes[id].input_units[i]
            c == output_channel(id, iu.route_port)
        IN (StagesRan(id) /\ iu.st_ready # NoFlit) =>
              /\ curr_time' = nodes[id].last_tick + 1
              /\ channels'[c].buf # <<>>
              /\ channels'[c].buf[Len(channels'[c].buf)]
                    = <<curr_time' + delay, iu.st_ready>>

\* C29: a node that, after its tick at cycle t, has a flit in st_ready, a
\* parked credit, an input unit in Routing, an input unit in VCWait for an
\* Idle output unit, an Active input unit with a buffered flit, or (a
\* destination) a buffered flit, has a tick event for cycle t + 1 in the
\* event queue; and the tick that finds a flit in st_ready is the one of
\* cycle t + 1 and puts the flit on its output channel.
C29_NoLostWakeup == [][WorkIsScheduled' /\ StagedFlitLeaves]_vars

\* A router whose only work is the flit it has just granted: the grant took
\* the last credit, no credit is parked and no other input unit has work.
C29_Witness ==
    \E id \in RtrIds : \E i \in Ports(id) :
        /\ nodes[id].last_tick = curr_time
        /\ nodes[id].input_units[i].st_ready # NoFlit
        /\ nodes[id].input_units[i].global = "CreditWait"
        /\ \A p \in Ports(id) : ~nodes[id].output_units[p].buf_credit
        /\ \A j \in Ports(id) \ {i} : nodes[id].input_units[j].global = "Idle"
        /\ TickPending(id, curr_time + 1)

====
